---- MODULE Spec2Model ----
(***************************************************************************)
(* Model of the todo HTTP API of vilderxyz/todo-task: the gin handlers of  *)
(* package api (createTodo, getTodoById, getTodos, updateTodoTextInfo,     *)
(* updateTodoCompletionInfo, updateTodoDoneInfo, deleteTodo) over the      *)
(* gorm-backed Queries of package db.  Spec handles the requests one at a  *)
(* time, SpecList the list requests over a week of clock readings, and     *)
(* SpecConc two requests at once, a store call at a time.                  *)
(*                                                                         *)
(* Time is counted in ticks since 2022-01-01T00:00 UTC, TicksPerDay ticks  *)
(* to a day; a "YYYY-MM-DD" text is the triple <<year, month, day>> of the *)
(* numbers it spells, and << >> is the empty text.  Completion is a whole  *)
(* number of percent.  The server clock is taken to run in UTC.            *)
(***************************************************************************)
EXTENDS Integers, Sequences, FiniteSets, TLC

VARIABLES todos, nextId, now, last, deleted, reqs

vars == <<todos, nextId, now, last, deleted, reqs>>

(***************************************************************************)
(* Bounds of the model.                                                    *)
(***************************************************************************)
\* ids the primary-key sequence hands out: 1..MaxId
MaxId == 1
\* clock resolution: ticks in one day
TicksPerDay == 2
\* the clock advances at most this many ticks past StartTime
MaxTicks == 1

(***************************************************************************)
(* time: the proleptic Gregorian calendar of Go's package time, as far as  *)
(* time.Parse("2006-01-02", s) and Time.Before need it.                    *)
(***************************************************************************)
IsLeap(y) == (y % 4 = 0) /\ ((y % 100 # 0) \/ (y % 400 = 0))

DaysInYear(y) == IF IsLeap(y) THEN 366 ELSE 365

DaysInMonth(y, m) ==
    IF m \in {4, 6, 9, 11} THEN 30
    ELSE IF m = 2 THEN (IF IsLeap(y) THEN 29 ELSE 28)
    ELSE 31

\* days of a year before the first of month m (package time's daysBefore,
\* with the leap day)
DaysBeforeMonth(y, m) ==
    <<0, 31, 59, 90, 120, 151, 181, 212, 243, 273, 304, 334>>[m]
        + (IF m > 2 /\ IsLeap(y) THEN 1 ELSE 0)

\* days from 2022-01-01 to the first of January of year y (negative before 2022)
RECURSIVE DaysBeforeYear(_)
DaysBeforeYear(y) ==
    IF y = 2022 THEN 0
    ELSE IF y > 2022 THEN DaysBeforeYear(y - 1) + DaysInYear(y - 1)
    ELSE DaysBeforeYear(y + 1) - DaysInYear(y)

\* the instant 00:00 UTC of a valid date
DateTicks(date) ==
    (DaysBeforeYear(date[1]) + DaysBeforeMonth(date[1], date[2]) + (date[3] - 1))
        * TicksPerDay

\* time.Parse("2006-01-02", s): an error unless s spells a date of the calendar
ParseDate(s) ==
    IF /\ Len(s) = 3
       /\ s[1] \in 0..9999
       /\ s[2] \in 1..12
       /\ s[3] >= 1
       /\ s[3] <= DaysInMonth(s[1], s[2])
    THEN [err |-> FALSE, t |-> DateTicks(s)]
    ELSE [err |-> TRUE, t |-> 0]

\* Time.Before
Before(t, u) == t < u

\* days from 2022-01-01 to the day of an instant
DayOf(t) == t \div TicksPerDay

\* Time.Weekday: Sunday is 0, Saturday is 6; 2022-01-01 was a Saturday
Weekday(t) == (DayOf(t) + 6) % 7

\* Time.AddDate(0, 0, days)
AddDate(t, days) == t + days * TicksPerDay

\* the year of the day that lies days after the first of January of y, and
\* the days of that year before it
RECURSIVE YearOf(_, _)
YearOf(y, days) ==
    IF days < 0 THEN YearOf(y - 1, days + DaysInYear(y - 1))
    ELSE IF days >= DaysInYear(y) THEN YearOf(y + 1, days - DaysInYear(y))
    ELSE <<y, days>>

\* the month, from m on, of the day that lies days after the first of month
\* m of y, and the day of the month
RECURSIVE MonthOf(_, _, _)
MonthOf(y, m, days) ==
    IF days >= DaysInMonth(y, m) THEN MonthOf(y, m + 1, days - DaysInMonth(y, m))
    ELSE <<m, days + 1>>

\* Time.Format("2006-01-02"): the date of the day of an instant
Format(t) ==
    LET yd == YearOf(2022, DayOf(t))
        md == MonthOf(yd[1], 1, yd[2])
    IN  <<yd[1], md[1], md[2]>>

(***************************************************************************)
(* package db: the Todo row and the Queries over gorm.                     *)
(***************************************************************************)
\* the empty store; a store maps the ids of its rows to the rows
NoTodos == [i \in {} |-> 0]

\* db.Todo
Todo(id, title, description, completion, expiry, isDone) ==
    [Id |-> id, Title |-> title, Description |-> description,
     Completion |-> completion, Expiry |-> expiry, IsDone |-> isDone]

\* the zero value Todo{Id: id}
ZeroTodo(id) == Todo(id, "", "", 0, 0, FALSE)

\* outcome of a store round trip: it works ("none"), the connection is lost
\* before the statement ran ("conn"), or the connection reports its error
\* only after the rows of a query were read ("late")
Faults == {"none", "conn", "late"}

\* the outcomes of the lookup and of the write of one update request: a write
\* is only reached after a lookup that worked
FaultPairs == {<<"none", "none">>, <<"conn", "none">>, <<"late", "none">>, <<"none", "conn">>}

\* CreateOneTodo: the row is built from the three params, IsDone false and
\* Completion 0; db.Create assigns the next id of the sequence.
CreateOneTodo(params, fault, store, nid) ==
    LET todo == Todo(nid, params.Title, params.Description, 0, params.Expiry, FALSE)
    IN  IF fault # "none"
        THEN [todo |-> ZeroTodo(0), err |-> "conn", todos |-> store, nextId |-> nid]
        ELSE [todo |-> todo, err |-> "",
              todos |-> [i \in DOMAIN store \cup {nid} |->
                            IF i = nid THEN todo ELSE store[i]],
              nextId |-> nid + 1]

\* GetOneTodoById handing back the Todo{Id: id} it built, without the columns
\* db.First read into it
GetOneTodoByIdUnloaded(id, fault, store) ==
    LET rowsAffected == IF fault # "conn" /\ id \in DOMAIN store THEN 1 ELSE 0
    IN  IF rowsAffected = 0
        THEN [todo |-> ZeroTodo(id), err |-> "not found"]
        ELSE [todo |-> ZeroTodo(id), err |-> IF fault = "late" THEN "conn" ELSE ""]

\* GetOneTodoById: db.First; no row affected (no such row, or the query
\* failed) is reported as "not found".
GetOneTodoById(id, fault, store) ==
    LET rowsAffected == IF fault # "conn" /\ id \in DOMAIN store THEN 1 ELSE 0
    IN  IF rowsAffected = 0
        THEN [todo |-> ZeroTodo(id), err |-> "not found"]
        ELSE [todo |-> store[id], err |-> IF fault = "late" THEN "conn" ELSE ""]

\* UpdateOneTodo refusing a row whose completion is below the stored one
UpdateOneTodoMonotone(todo, fault, store) ==
    IF fault # "none"
    THEN [todo |-> todo, err |-> "conn", todos |-> store]
    ELSE IF todo.Id \in DOMAIN store /\ store[todo.Id].Completion > todo.Completion
         THEN [todo |-> todo, err |-> "stale", todos |-> store]
    ELSE [todo |-> todo, err |-> "",
          todos |-> [i \in DOMAIN store \cup {todo.Id} |->
                        IF i = todo.Id THEN todo ELSE store[i]]]

\* UpdateOneTodo: db.Save writes every column of the row with the todo's id
\* (and inserts the row when no row has that id).
UpdateOneTodo(todo, fault, store) ==
    IF fault # "none"
    THEN [todo |-> todo, err |-> "conn", todos |-> store]
    ELSE [todo |-> todo, err |-> "",
          todos |-> [i \in DOMAIN store \cup {todo.Id} |->
                        IF i = todo.Id THEN todo ELSE store[i]]]

\* DeleteOneTodo without the test of RowsAffected: deleting no row is no error
DeleteOneTodoUnchecked(id, fault, store) ==
    IF fault # "none"
    THEN [err |-> "conn", todos |-> store]
    ELSE [err |-> "", todos |-> [i \in DOMAIN store \ {id} |-> store[i]]]

\* DeleteOneTodo with the condition id >= ? in place of the primary key
DeleteOneTodoFrom(id, fault, store) ==
    LET rows == {i \in DOMAIN store : i >= id}
        rowsAffected == IF fault = "none" THEN Cardinality(rows) ELSE 0
    IN  IF rowsAffected = 0
        THEN [err |-> "not found", todos |-> store]
        ELSE [err |-> "", todos |-> [i \in DOMAIN store \ rows |-> store[i]]]

\* DeleteOneTodo: db.Delete by primary key; no row affected (no such row, or
\* the statement failed) is "not found".
DeleteOneTodo(id, fault, store) ==
    LET rowsAffected == IF fault = "none" /\ id \in DOMAIN store THEN 1 ELSE 0
    IN  IF rowsAffected = 0
        THEN [err |-> "not found", todos |-> store]
        ELSE [err |-> "", todos |-> [i \in DOMAIN store \ {id} |-> store[i]]]

\* GetAllTodos with the NOT is_done of GetManyTodos
GetAllTodosUnfinished(fault, store) ==
    IF fault # "none"
    THEN [todos |-> {}, err |-> "conn"]
    ELSE [todos |-> {store[i] : i \in {j \in DOMAIN store : ~store[j].IsDone}}, err |-> ""]

\* GetAllTodos: db.Find without a condition; the rows are modelled as a set
GetAllTodos(fault, store) ==
    IF fault # "none"
    THEN [todos |-> {}, err |-> "conn"]
    ELSE [todos |-> {store[i] : i \in DOMAIN store}, err |-> ""]

\* GetManyTodos with the half-open range expiry >= start AND expiry < end
GetManyTodosHalfOpen(startDate, endDate, fault, store) ==
    IF fault # "none"
    THEN [todos |-> {}, err |-> "conn"]
    ELSE [todos |-> {store[i] : i \in {j \in DOMAIN store :
                        /\ store[j].Expiry >= startDate
                        /\ store[j].Expiry < endDate
                        /\ ~store[j].IsDone}},
          err |-> ""]

\* GetManyTodos without the condition on is_done
GetManyTodosAnyDone(startDate, endDate, fault, store) ==
    IF fault # "none"
    THEN [todos |-> {}, err |-> "conn"]
    ELSE [todos |-> {store[i] : i \in {j \in DOMAIN store :
                        /\ store[j].Expiry >= startDate
                        /\ store[j].Expiry <= endDate}},
          err |-> ""]

\* GetManyTodos: Where("(expiry BETWEEN ? AND ?) AND NOT is_done"); SQL's
\* BETWEEN includes both of its bounds
GetManyTodos(startDate, endDate, fault, store) ==
    IF fault # "none"
    THEN [todos |-> {}, err |-> "conn"]
    ELSE [todos |-> {store[i] : i \in {j \in DOMAIN store :
                        /\ store[j].Expiry >= startDate
                        /\ store[j].Expiry <= endDate
                        /\ ~store[j].IsDone}},
          err |-> ""]

(***************************************************************************)
(* package api: request bodies, their binding, and the handlers.  A        *)
(* handler is an operator from the request, the clock reading, the outcome *)
(* of each store round trip and the store to the response status, the      *)
(* store calls it issued, and the store it leaves.                         *)
(***************************************************************************)
\* the Data of a Response that carries none
NoData == << >>

Reply(status, calls, store, nid) ==
    [status |-> status, calls |-> calls, todos |-> store, nextId |-> nid,
     data |-> NoData]

\* Response{Message: ..., Data: data}
ReplyData(reply, data) == [reply EXCEPT !.data = data]

\* a store call a handler issued, with the outcome of its round trip
Call(name, fault) == <<name, fault>>

\* the call of GetManyTodos, with its two arguments
RangeCall(fault, startDate, endDate) == <<"GetManyTodos", fault, startDate, endDate>>

\* ShouldBindJSON into CreateTodoRequest: only title, description and expiry
\* are decoded, every other field of the body is dropped.
BindCreate(body) ==
    [Title |-> body.title, Description |-> body.description, Expiry |-> body.expiry]

\* binding:"required,min=1" on Title and Description, "required" on Expiry
ValidCreate(req) ==
    /\ req.Title # ""
    /\ req.Description # ""
    /\ req.Expiry # << >>

\* db.CreateTodoParams of createTodo
CreateTodoParams(req, expiryTime) ==
    [Title |-> req.Title, Description |-> req.Description, Expiry |-> expiryTime]

\* createTodo answering a text that does not parse with 500, as the draft
\* api/todo.handler.go did
createTodoParseError500(body, t, fault, store, nid) ==
    LET req == BindCreate(body)
        parsed == ParseDate(req.Expiry)
        res == CreateOneTodo(CreateTodoParams(req, parsed.t), fault, store, nid)
    IN  IF ~ValidCreate(req) THEN Reply(400, << >>, store, nid)
        ELSE IF parsed.err THEN Reply(500, << >>, store, nid)
        ELSE IF Before(parsed.t, t) THEN Reply(400, << >>, store, nid)
        ELSE IF res.err # "" THEN Reply(500, <<Call("CreateOneTodo", fault)>>, store, nid)
        ELSE ReplyData(Reply(200, <<Call("CreateOneTodo", fault)>>, res.todos, res.nextId), res.todo)

\* createTodo decoding the body into a whole db.Todo and inserting that: the
\* client's id (when given), completion and is_done reach the row
createTodoBindsTodo(body, t, fault, store, nid) ==
    LET req == BindCreate(body)
        parsed == ParseDate(req.Expiry)
        id == IF body.id = 0 THEN nid ELSE body.id
        todo == Todo(id, body.title, body.description, body.completion, parsed.t,
                     body.is_done)
    IN  IF ~ValidCreate(req) THEN Reply(400, << >>, store, nid)
        ELSE IF parsed.err THEN Reply(400, << >>, store, nid)
        ELSE IF Before(parsed.t, t) THEN Reply(400, << >>, store, nid)
        ELSE IF fault # "none"
             THEN Reply(500, <<Call("CreateOneTodo", fault)>>, store, nid)
        ELSE ReplyData(Reply(200, <<Call("CreateOneTodo", fault)>>,
                   [i \in DOMAIN store \cup {id} |-> IF i = id THEN todo ELSE store[i]],
                   IF body.id = 0 THEN nid + 1 ELSE nid), todo)

createTodo(body, t, fault, store, nid) ==
    LET req == BindCreate(body)
        parsed == ParseDate(req.Expiry)
        res == CreateOneTodo(CreateTodoParams(req, parsed.t), fault, store, nid)
    IN  IF ~ValidCreate(req) THEN Reply(400, << >>, store, nid)
        ELSE IF parsed.err THEN Reply(400, << >>, store, nid)
        ELSE IF Before(parsed.t, t) THEN Reply(400, << >>, store, nid)
        ELSE IF res.err # "" THEN Reply(500, <<Call("CreateOneTodo", fault)>>, store, nid)
        ELSE ReplyData(Reply(200, <<Call("CreateOneTodo", fault)>>, res.todos, res.nextId), res.todo)

\* binding:"required,min=1" on the id of the uri or body
ValidId(id) == id >= 1

getTodoById(id, fault, store, nid) ==
    LET res == GetOneTodoById(id, fault, store)
    IN  IF ~ValidId(id) THEN Reply(400, << >>, store, nid)
        ELSE IF res.err = "not found" THEN Reply(404, <<Call("GetOneTodoById", fault)>>, store, nid)
        ELSE IF res.err # "" THEN Reply(500, <<Call("GetOneTodoById", fault)>>, store, nid)
        ELSE ReplyData(Reply(200, <<Call("GetOneTodoById", fault)>>, store, nid), res.todo)

\* ShouldBindJSON into UpdateTodoInfoRequest
ValidUpdateInfo(body) ==
    /\ ValidId(body.id)
    /\ body.title # ""
    /\ body.description # ""
    /\ body.expiry # << >>

\* SetTextInfo building a fresh row from the request and the id alone:
\* Completion and IsDone fall back to their zero values
SetTextInfoFresh(todo, body, expiryTime) ==
    Todo(todo.Id, body.title, body.description, 0, expiryTime, FALSE)

\* SetTextInfo without the assignment to Expiry
SetTextInfoKeepsExpiry(todo, body, expiryTime) ==
    [todo EXCEPT !.Description = body.description, !.Title = body.title]

\* updateTodoTextInfo writing a row built from the request and the fields it
\* keeps, without the Id of the row it looked up
SetTextInfoNoId(todo, body, expiryTime) ==
    Todo(0, body.title, body.description, todo.Completion, expiryTime, todo.IsDone)

\* the three assignments of updateTodoTextInfo to the row it looked up
SetTextInfo(todo, body, expiryTime) ==
    [todo EXCEPT !.Description = body.description,
                 !.Expiry = expiryTime,
                 !.Title = body.title]

\* updateTodoTextInfo looking the row up before it parses and tests the expiry
updateTodoTextInfoLookupFirst(body, t, fault1, fault2, store, nid) ==
    LET parsed == ParseDate(body.expiry)
        got == GetOneTodoById(body.id, fault1, store)
        res == UpdateOneTodo(SetTextInfo(got.todo, body, parsed.t), fault2, store)
    IN  IF ~ValidUpdateInfo(body) THEN Reply(400, << >>, store, nid)
        ELSE IF got.err = "not found" THEN Reply(404, <<Call("GetOneTodoById", fault1)>>, store, nid)
        ELSE IF got.err # "" THEN Reply(500, <<Call("GetOneTodoById", fault1)>>, store, nid)
        ELSE IF parsed.err THEN Reply(400, <<Call("GetOneTodoById", fault1)>>, store, nid)
        ELSE IF Before(parsed.t, t) THEN Reply(400, <<Call("GetOneTodoById", fault1)>>, store, nid)
        ELSE IF res.err # ""
             THEN Reply(500, <<Call("GetOneTodoById", fault1), Call("UpdateOneTodo", fault2)>>, store, nid)
        ELSE ReplyData(Reply(200, <<Call("GetOneTodoById", fault1), Call("UpdateOneTodo", fault2)>>, res.todos, nid), res.todo)

updateTodoTextInfo(body, t, fault1, fault2, store, nid) ==
    LET parsed == ParseDate(body.expiry)
        got == GetOneTodoById(body.id, fault1, store)
        res == UpdateOneTodo(SetTextInfo(got.todo, body, parsed.t), fault2, store)
    IN  IF ~ValidUpdateInfo(body) THEN Reply(400, << >>, store, nid)
        ELSE IF parsed.err THEN Reply(400, << >>, store, nid)
        ELSE IF Before(parsed.t, t) THEN Reply(400, << >>, store, nid)
        ELSE IF got.err = "not found" THEN Reply(404, <<Call("GetOneTodoById", fault1)>>, store, nid)
        ELSE IF got.err # "" THEN Reply(500, <<Call("GetOneTodoById", fault1)>>, store, nid)
        ELSE IF res.err # ""
             THEN Reply(500, <<Call("GetOneTodoById", fault1), Call("UpdateOneTodo", fault2)>>, store, nid)
        ELSE ReplyData(Reply(200, <<Call("GetOneTodoById", fault1), Call("UpdateOneTodo", fault2)>>, res.todos, nid), res.todo)

\* the binding of UpdateTodoCompletionRequest without lte=100
ValidUpdateCompletionNoMax(body) ==
    /\ ValidId(body.id)
    /\ body.completion # 0
    /\ body.completion >= 0

\* ShouldBindJSON into UpdateTodoCompletionRequest: "required" refuses the
\* zero value, gte=0 and lte=100 bound the rest
ValidUpdateCompletion(body) ==
    /\ ValidId(body.id)
    /\ body.completion # 0
    /\ body.completion >= 0
    /\ body.completion <= 100

\* the rule with > for >=: an equal completion is let through
CompletionRefusedStrict(todo, body) == todo.Completion > body.completion

\* the rule with the expiry test of createTodo carried over to the stored
\* row: a todo whose expiry has passed is refused
CompletionRefusedExpired(todo, body) ==
    todo.Completion >= body.completion \/ Before(todo.Expiry, now)

\* the rule of updateTodoCompletionInfo: refused when the stored completion
\* is greater than or equal to the requested one
CompletionRefused(todo, body) == todo.Completion >= body.completion

\* SetCompletion building a fresh row that leaves IsDone out
SetCompletionFresh(todo, body) ==
    Todo(todo.Id, todo.Title, todo.Description, body.completion, todo.Expiry, FALSE)

SetCompletion(todo, body) == [todo EXCEPT !.Completion = body.completion]

\* updateTodoCompletionInfo writing the row before it tests the rule
updateTodoCompletionInfoWriteFirst(body, fault1, fault2, store, nid) ==
    LET got == GetOneTodoById(body.id, fault1, store)
        res == UpdateOneTodo(SetCompletion(got.todo, body), fault2, store)
    IN  IF ~ValidUpdateCompletion(body) THEN Reply(400, << >>, store, nid)
        ELSE IF got.err = "not found"
             THEN Reply(404, <<Call("GetOneTodoById", fault1)>>, store, nid)
        ELSE IF got.err # "" THEN Reply(500, <<Call("GetOneTodoById", fault1)>>, store, nid)
        ELSE IF res.err # ""
             THEN Reply(500, <<Call("GetOneTodoById", fault1), Call("UpdateOneTodo", fault2)>>, store, nid)
        ELSE IF CompletionRefused(got.todo, body)
             THEN Reply(400, <<Call("GetOneTodoById", fault1), Call("UpdateOneTodo", fault2)>>, res.todos, nid)
        ELSE ReplyData(Reply(200, <<Call("GetOneTodoById", fault1), Call("UpdateOneTodo", fault2)>>, res.todos, nid), res.todo)

updateTodoCompletionInfo(body, fault1, fault2, store, nid) ==
    LET got == GetOneTodoById(body.id, fault1, store)
        res == UpdateOneTodo(SetCompletion(got.todo, body), fault2, store)
    IN  IF ~ValidUpdateCompletion(body) THEN Reply(400, << >>, store, nid)
        ELSE IF got.err = "not found" THEN Reply(404, <<Call("GetOneTodoById", fault1)>>, store, nid)
        ELSE IF got.err # "" THEN Reply(500, <<Call("GetOneTodoById", fault1)>>, store, nid)
        ELSE IF CompletionRefused(got.todo, body)
             THEN Reply(400, <<Call("GetOneTodoById", fault1)>>, store, nid)
        ELSE IF res.err # ""
             THEN Reply(500, <<Call("GetOneTodoById", fault1), Call("UpdateOneTodo", fault2)>>, store, nid)
        ELSE ReplyData(Reply(200, <<Call("GetOneTodoById", fault1), Call("UpdateOneTodo", fault2)>>, res.todos, nid), res.todo)

\* the binding of UpdateTodoDoneRequest without "required" on is_done
ValidUpdateDoneIdOnly(body) == ValidId(body.id)

\* ShouldBindJSON into UpdateTodoDoneRequest: "required" on a bool refuses
\* false
ValidUpdateDone(body) ==
    /\ ValidId(body.id)
    /\ body.is_done

\* the rule without the test of the stored IsDone
DoneRefusedOnlyFalse(todo, body) == ~body.is_done

\* the rule of updateTodoDoneInfo
DoneRefused(todo, body) == todo.IsDone \/ ~body.is_done

SetDone(todo, body) == [todo EXCEPT !.IsDone = body.is_done]

updateTodoDoneInfo(body, fault1, fault2, store, nid) ==
    LET got == GetOneTodoById(body.id, fault1, store)
        res == UpdateOneTodo(SetDone(got.todo, body), fault2, store)
    IN  IF ~ValidUpdateDone(body) THEN Reply(400, << >>, store, nid)
        ELSE IF got.err = "not found" THEN Reply(404, <<Call("GetOneTodoById", fault1)>>, store, nid)
        ELSE IF got.err # "" THEN Reply(500, <<Call("GetOneTodoById", fault1)>>, store, nid)
        ELSE IF DoneRefused(got.todo, body)
             THEN Reply(400, <<Call("GetOneTodoById", fault1)>>, store, nid)
        ELSE IF res.err # ""
             THEN Reply(500, <<Call("GetOneTodoById", fault1), Call("UpdateOneTodo", fault2)>>, store, nid)
        ELSE ReplyData(Reply(200, <<Call("GetOneTodoById", fault1), Call("UpdateOneTodo", fault2)>>, res.todos, nid), res.todo)

deleteTodo(id, fault, store, nid) ==
    LET res == DeleteOneTodo(id, fault, store)
    IN  IF ~ValidId(id) THEN Reply(400, << >>, store, nid)
        ELSE IF res.err = "not found" THEN Reply(404, <<Call("DeleteOneTodo", fault)>>, store, nid)
        ELSE IF res.err # "" THEN Reply(500, <<Call("DeleteOneTodo", fault)>>, store, nid)
        ELSE Reply(200, <<Call("DeleteOneTodo", fault)>>, res.todos, nid)

\* valid.ValidPeriod, registered as the binding "period"
ValidPeriod(period) == period \in {"today", "tomorrow", "week", ""}

\* AddDays with the 1 of "today" copied to "tomorrow"
AddDaysTomorrowAsToday(period, t) ==
    IF period = "today" THEN 1
    ELSE IF period = "tomorrow" THEN 1
    ELSE 8 - Weekday(t)

\* AddDays with the week counted from 7: its range ends with the Saturday
AddDaysWeekFromSeven(period, t) ==
    IF period = "today" THEN 1
    ELSE IF period = "tomorrow" THEN 2
    ELSE 7 - Weekday(t)

\* the days getTodos adds to the clock for the end of the range; the week
\* counts them from the weekday of a clock reading
AddDays(period, t) ==
    IF period = "today" THEN 1
    ELSE IF period = "tomorrow" THEN 2
    ELSE 8 - Weekday(t)

\* the number of times getTodos reads the clock
ClockReads(period) ==
    IF period \in {"today", "tomorrow"} THEN 2
    ELSE IF period = "week" THEN 3
    ELSE 0

\* getTodos without the binding "period" and with the fetch of all todos as
\* the default of its switch
getTodosDefaultAll(period, clock, fault, store, nid) ==
    LET n == Len(clock)
        day == Format(AddDate(clock[n - 1], AddDays(period, clock[1])))
        parsed == ParseDate(day)
        many == GetManyTodos(clock[n], parsed.t, fault, store)
        all == GetAllTodos(fault, store)
    IN  IF period \in {"today", "tomorrow", "week"}
        THEN IF parsed.err THEN Reply(500, << >>, store, nid)
             ELSE IF many.err # ""
                  THEN Reply(500, <<RangeCall(fault, clock[n], parsed.t)>>, store, nid)
             ELSE ReplyData(Reply(200, <<RangeCall(fault, clock[n], parsed.t)>>, store, nid),
                            many.todos)
        ELSE IF all.err # "" THEN Reply(500, <<Call("GetAllTodos", fault)>>, store, nid)
        ELSE ReplyData(Reply(200, <<Call("GetAllTodos", fault)>>, store, nid), all.todos)

\* getTodos; clock holds the readings of time.Now() in the order the handler
\* takes them: the last one is the start of the range, the one before it is
\* the instant the days are added to, and the week takes its weekday from a
\* reading of its own before these two
getTodos(period, clock, fault, store, nid) ==
    LET n == Len(clock)
        day == Format(AddDate(clock[n - 1], AddDays(period, clock[1])))
        parsed == ParseDate(day)
        many == GetManyTodos(clock[n], parsed.t, fault, store)
        all == GetAllTodos(fault, store)
    IN  IF ~ValidPeriod(period) THEN Reply(400, << >>, store, nid)
        ELSE IF period \in {"today", "tomorrow", "week"}
             THEN IF parsed.err THEN Reply(500, << >>, store, nid)
                  ELSE IF many.err # ""
                       THEN Reply(500, <<RangeCall(fault, clock[n], parsed.t)>>, store, nid)
                  ELSE ReplyData(Reply(200, <<RangeCall(fault, clock[n], parsed.t)>>, store, nid),
                                 many.todos)
        ELSE IF period = ""
             THEN IF all.err # "" THEN Reply(500, <<Call("GetAllTodos", fault)>>, store, nid)
                  ELSE ReplyData(Reply(200, <<Call("GetAllTodos", fault)>>, store, nid), all.todos)
        ELSE Reply(400, << >>, store, nid)

(***************************************************************************)
(* The requests the clients send.                                          *)
(***************************************************************************)
\* a JSON body or uri: the fields a request leaves out hold their zero value
Body(id, title, description, expiry, completion, isDone) ==
    [id |-> id, title |-> title, description |-> description,
     expiry |-> expiry, completion |-> completion, is_done |-> isDone]

Ids == 0..MaxId

\* <<title, description, expiry>> of a body: two bodies with a day that is
\* still to come, one with a day that has begun, one with a month 13, one
\* that leaves the description out
TextInputs ==
    { <<"t1", "d1", <<2022, 12, 23>> >>,
      <<"t2", "d2", <<2022, 12, 24>> >>,
      <<"t1", "d1", <<2022, 12, 22>> >>,
      <<"t2", "d2", <<2022, 13, 23>> >>,
      <<"t1", "", <<2022, 12, 24>> >> }

CompletionInputs == {-1, 0, 50, 100, 101}

\* what a client may add to a create body: nothing, or id, completion, is_done
ExtraInputs == {<<0, 0, FALSE>>, <<MaxId + 1, 100, TRUE>>}

\* the query of a list request
Query(period) == [period |-> period]

\* the periods a client asks for: the four valid ones and one that is not
Periods == {"today", "tomorrow", "week", "", "????"}

\* the clock starts in the middle of 2022-12-22
StartTime == DateTicks(<<2022, 12, 22>>) + 1

\* the readings of n successive calls of time.Now(), the first at t: the
\* clock does not run backwards, and moves by at most a tick between two
\* calls
RECURSIVE Readings(_, _)
Readings(t, n) ==
    IF n = 0 THEN {<< >>}
    ELSE LET later == IF t < StartTime + MaxTicks THEN {t, t + 1} ELSE {t}
         IN  {<<t>> \o rest : rest \in UNION {Readings(u, n - 1) : u \in later}}

\* what the model remembers of the last request: the request, the clock
\* reading, the response status and data, the store calls and the store it
\* found; deleted holds the ids whose delete was answered 200
Request(op, body, out) ==
    [op |-> op, body |-> body, at |-> now, status |-> out.status,
     calls |-> out.calls, data |-> out.data, before |-> todos]

\* the goroutines that handle two requests at once
Handlers == {"h1", "h2"}

\* a handler that has no request: op and body are those of its request, pc
\* its place in the handler ("idle", before the "lookup" or the "delete",
\* before the "write", "done"), todo the row it holds for its write and
\* status its response
Idle ==
    [op |-> "none", body |-> Body(0, "", "", << >>, 0, FALSE), pc |-> "idle",
     todo |-> ZeroTodo(0), status |-> 0]

NoRequests == [h \in Handlers |-> Idle]

Init ==
    /\ todos = NoTodos
    /\ nextId = 1
    /\ now = StartTime
    /\ last = [op |-> "none", body |-> Body(0, "", "", << >>, 0, FALSE), at |-> StartTime,
               status |-> 0, calls |-> << >>, data |-> NoData, before |-> NoTodos]
    /\ deleted = {}
    /\ reqs = NoRequests

\* POST /todos, while the ids handed out stay within cap
PostTodoUpTo(cap) ==
    /\ nextId <= cap
    /\ \E text \in TextInputs, extra \in ExtraInputs :
          LET body == Body(extra[1], text[1], text[2], text[3], extra[2], extra[3])
          IN  \E out \in {createTodo(body, now, f, todos, nextId) : f \in {"none", "conn"}} :
              /\ todos' = out.todos
              /\ nextId' = out.nextId
              /\ last' = Request("create", body, out)
    /\ UNCHANGED <<now, deleted, reqs>>

\* POST /todos
PostTodo == PostTodoUpTo(MaxId)

\* GET /todos/:id
GetTodo ==
    /\ \E id \in Ids :
          LET body == Body(id, "", "", << >>, 0, FALSE)
          IN  \E out \in {getTodoById(id, f, todos, nextId) : f \in Faults} :
              /\ todos' = out.todos
              /\ nextId' = out.nextId
              /\ last' = Request("get", body, out)
    /\ UNCHANGED <<now, deleted, reqs>>

\* PATCH /todos
PatchTodo ==
    /\ \E id \in Ids, text \in TextInputs :
          LET body == Body(id, text[1], text[2], text[3], 0, FALSE)
          IN  \E out \in {updateTodoTextInfo(body, now, f[1], f[2], todos, nextId) : f \in FaultPairs} :
              /\ todos' = out.todos
              /\ nextId' = out.nextId
              /\ last' = Request("text", body, out)
    /\ UNCHANGED <<now, deleted, reqs>>

\* PATCH /todos/completion
PatchTodoCompletion ==
    /\ \E id \in Ids, completion \in CompletionInputs :
          LET body == Body(id, "", "", << >>, completion, FALSE)
          IN  \E out \in {updateTodoCompletionInfo(body, f[1], f[2], todos, nextId) : f \in FaultPairs} :
              /\ todos' = out.todos
              /\ nextId' = out.nextId
              /\ last' = Request("completion", body, out)
    /\ UNCHANGED <<now, deleted, reqs>>

\* PATCH /todos/done
PatchTodoDone ==
    /\ \E id \in Ids, isDone \in BOOLEAN :
          LET body == Body(id, "", "", << >>, 0, isDone)
          IN  \E out \in {updateTodoDoneInfo(body, f[1], f[2], todos, nextId) : f \in FaultPairs} :
              /\ todos' = out.todos
              /\ nextId' = out.nextId
              /\ last' = Request("done", body, out)
    /\ UNCHANGED <<now, deleted, reqs>>

\* DELETE /todos/:id
DeleteTodo ==
    /\ \E id \in Ids :
          LET body == Body(id, "", "", << >>, 0, FALSE)
          IN  \E out \in {deleteTodo(id, f, todos, nextId) : f \in {"none", "conn"}} :
              /\ todos' = out.todos
              /\ nextId' = out.nextId
              /\ last' = Request("delete", body, out)
              /\ deleted' = IF out.status = 200 THEN deleted \cup {id} ELSE deleted
    /\ UNCHANGED <<now, reqs>>

\* GET /todos: the clock is where the handler's last reading left it
GetTodos ==
    /\ \E period \in Periods :
          \E clock \in Readings(now, ClockReads(period)) :
              \E out \in {getTodos(period, clock, f, todos, nextId) : f \in {"none", "conn"}} :
                  /\ todos' = out.todos
                  /\ nextId' = out.nextId
                  /\ last' = Request("list", Query(period), out)
                  /\ now' = IF clock = << >> THEN now ELSE clock[Len(clock)]
    /\ UNCHANGED <<deleted, reqs>>

\* time passes between two requests
Tick ==
    /\ now < StartTime + MaxTicks
    /\ now' = now + 1
    /\ UNCHANGED <<todos, nextId, last, deleted, reqs>>

Next ==
    \/ PostTodo
    \/ GetTodo
    \/ PatchTodo
    \/ PatchTodoCompletion
    \/ PatchTodoDone
    \/ DeleteTodo
    \/ GetTodos
    \/ Tick

\* requests are handled one at a time
Spec == Init /\ [][Next]_vars

(***************************************************************************)
(* The list requests over a week of clock readings and over stores of      *)
(* rows that are done or not and whose expiry lies before, in and after    *)
(* that week.                                                              *)
(***************************************************************************)
\* the rows of a store whose todos are listed: at most this many
MaxListed == 2

\* the days the listed rows expire on: one before the week of readings, and
\* days that are bounds of its ranges
ListExpiries ==
    {<<2022, 12, 21>>, <<2022, 12, 23>>, <<2022, 12, 24>>, <<2022, 12, 26>>,
     <<2023, 1, 2>>}

\* rows as createTodo and the updates leave them
ListRows(id) ==
    {Todo(id, "t1", "d1", 0, DateTicks(date), isDone) :
        date \in ListExpiries, isDone \in BOOLEAN}

\* the stores of up to MaxListed rows
ListStores ==
    UNION {{store \in [1..n -> UNION {ListRows(id) : id \in 1..n}] :
                \A id \in 1..n : store[id].Id = id} : n \in 0..MaxListed}

\* the clock readings of the seven days from 2022-12-22, a Thursday, on
ListTimes ==
    {DateTicks(<<2022, 12, 22>>) + i : i \in 0..(7 * TicksPerDay - 1)}

ListInit ==
    /\ todos \in ListStores
    /\ nextId = MaxListed + 1
    /\ now \in ListTimes
    /\ last = [op |-> "none", body |-> Body(0, "", "", << >>, 0, FALSE), at |-> now,
               status |-> 0, calls |-> << >>, data |-> NoData, before |-> todos]
    /\ deleted = {}
    /\ reqs = NoRequests

ListNext == GetTodos

\* list requests, from any store and any reading of the week
SpecList == ListInit /\ [][ListNext]_vars

(***************************************************************************)
(* Requests to a store that holds a todo none of them addresses.           *)
(***************************************************************************)
\* the todo a create of the first body of TextInputs stores under id
FrameRow(id) ==
    CreateOneTodo(CreateTodoParams(BindCreate(Body(0, "t1", "d1", <<2022, 12, 23>>, 0, FALSE)),
                                   DateTicks(<<2022, 12, 23>>)),
                  "none", NoTodos, id).todo

\* MaxId + 1 creates have been answered 201 and the todos between the first
\* and the last have been deleted: todo 1 and todo MaxId + 1 are stored, and
\* the requests address the ids up to MaxId
FrameInit ==
    /\ todos = [id \in {1, MaxId + 1} |-> FrameRow(id)]
    /\ nextId = MaxId + 2
    /\ now = StartTime
    /\ last = [op |-> "none", body |-> Body(0, "", "", << >>, 0, FALSE), at |-> StartTime,
               status |-> 0, calls |-> << >>, data |-> NoData, before |-> todos]
    /\ deleted = 2..MaxId
    /\ reqs = NoRequests

FrameNext ==
    \/ PostTodoUpTo(MaxId + 2)
    \/ GetTodo
    \/ PatchTodo
    \/ PatchTodoCompletion
    \/ PatchTodoDone
    \/ DeleteTodo
    \/ GetTodos

\* requests handled one at a time, next to a todo they do not address
SpecFrame == FrameInit /\ [][FrameNext]_vars

(***************************************************************************)
(* The completion and done updates of a todo whose expiry has passed or is *)
(* still to come.                                                          *)
(***************************************************************************)
\* todo 1 as the requests and the passing of time leave it: at completion 0
\* or 50, done or not, expired the day before the clock's or due the day
\* after
ExpiryRows ==
    {Todo(1, "t1", "d1", completion, DateTicks(date), isDone) :
        completion \in {0, 50}, date \in {<<2022, 12, 21>>, <<2022, 12, 23>>},
        isDone \in BOOLEAN}

ExpiryInit ==
    /\ todos \in {[id \in {1} |-> row] : row \in ExpiryRows}
    /\ nextId = 2
    /\ now = StartTime
    /\ last = [op |-> "none", body |-> Body(0, "", "", << >>, 0, FALSE), at |-> StartTime,
               status |-> 0, calls |-> << >>, data |-> NoData, before |-> todos]
    /\ deleted = {}
    /\ reqs = NoRequests

ExpiryNext ==
    \/ PatchTodoCompletion
    \/ PatchTodoDone

\* completion and done updates of a stored todo, expired or not
SpecExpiry == ExpiryInit /\ [][ExpiryNext]_vars

(***************************************************************************)
(* Two requests at once.  gin serves every request on a goroutine of its   *)
(* own and the handlers take no lock, so the store calls of two requests   *)
(* interleave: a step is what one handler does up to and including its     *)
(* next store call.  The store works throughout.                           *)
(***************************************************************************)
\* the requests of the two handlers, all for todo 1: completion updates to
\* 50, to 100 and to 0, a done update, a text update and a delete
ConcInputs ==
    { <<"completion", Body(1, "", "", << >>, 50, FALSE)>>,
      <<"completion", Body(1, "", "", << >>, 100, FALSE)>>,
      <<"completion", Body(1, "", "", << >>, 0, FALSE)>>,
      <<"done", Body(1, "", "", << >>, 0, TRUE)>>,
      <<"text", Body(1, "t2", "d2", <<2022, 12, 24>>, 0, FALSE)>>,
      <<"delete", Body(1, "", "", << >>, 0, FALSE)>> }

\* what a handler tests before its first store call: the binding of the
\* request and, in updateTodoTextInfo, the expiry
Accepted(op, body, t) ==
    IF op = "text"
    THEN /\ ValidUpdateInfo(body)
         /\ ~ParseDate(body.expiry).err
         /\ ~Before(ParseDate(body.expiry).t, t)
    ELSE IF op = "completion" THEN ValidUpdateCompletion(body)
    ELSE IF op = "done" THEN ValidUpdateDone(body)
    ELSE ValidId(body.id)

\* the rule an update tests on the row it looked up
Refused(op, todo, body) ==
    IF op = "completion" THEN CompletionRefused(todo, body)
    ELSE IF op = "done" THEN DoneRefused(todo, body)
    ELSE FALSE

\* the assignments of an update to the row it looked up
Assigned(op, todo, body) ==
    IF op = "completion" THEN SetCompletion(todo, body)
    ELSE IF op = "done" THEN SetDone(todo, body)
    ELSE SetTextInfo(todo, body, ParseDate(body.expiry).t)

\* a handler takes a request and runs up to its first store call
Accept(h) ==
    /\ reqs[h].pc = "idle"
    /\ \E input \in ConcInputs :
          reqs' = [reqs EXCEPT ![h] =
                      IF ~Accepted(input[1], input[2], now)
                      THEN [Idle EXCEPT !.op = input[1], !.body = input[2],
                                        !.pc = "done", !.status = 400]
                      ELSE [Idle EXCEPT !.op = input[1], !.body = input[2],
                                        !.pc = IF input[1] = "delete" THEN "delete"
                                               ELSE "lookup"]]
    /\ UNCHANGED <<todos, nextId, now, last, deleted>>

\* GetOneTodoById of an update, the rule, and the assignments to the row
Lookup(h) ==
    /\ reqs[h].pc = "lookup"
    /\ LET r == reqs[h]
           got == GetOneTodoById(r.body.id, "none", todos)
       IN  reqs' = [reqs EXCEPT ![h] =
                       IF got.err = "not found" THEN [r EXCEPT !.pc = "done", !.status = 404]
                       ELSE IF got.err # "" THEN [r EXCEPT !.pc = "done", !.status = 500]
                       ELSE IF Refused(r.op, got.todo, r.body)
                            THEN [r EXCEPT !.pc = "done", !.status = 400]
                       ELSE [r EXCEPT !.pc = "write",
                                      !.todo = Assigned(r.op, got.todo, r.body)]]
    /\ UNCHANGED <<todos, nextId, now, last, deleted>>

\* UpdateOneTodo of an update, and its response
Write(h) ==
    /\ reqs[h].pc = "write"
    /\ LET res == UpdateOneTodo(reqs[h].todo, "none", todos)
       IN  /\ todos' = res.todos
           /\ reqs' = [reqs EXCEPT ![h].pc = "done",
                                   ![h].status = IF res.err # "" THEN 500 ELSE 200]
    /\ UNCHANGED <<nextId, now, last, deleted>>

\* DeleteOneTodo of a delete, and its response
Remove(h) ==
    /\ reqs[h].pc = "delete"
    /\ LET res == DeleteOneTodo(reqs[h].body.id, "none", todos)
           status == IF res.err = "not found" THEN 404
                     ELSE IF res.err # "" THEN 500
                     ELSE 200
       IN  /\ todos' = res.todos
           /\ reqs' = [reqs EXCEPT ![h].pc = "done", ![h].status = status]
           /\ deleted' = IF status = 200 THEN deleted \cup {reqs[h].body.id} ELSE deleted
    /\ UNCHANGED <<nextId, now, last>>

\* todo 1 is stored as createTodo left it
ConcInit ==
    /\ todos = CreateOneTodo(CreateTodoParams(BindCreate(Body(0, "t1", "d1", <<2022, 12, 23>>, 0, FALSE)),
                                              DateTicks(<<2022, 12, 23>>)),
                             "none", NoTodos, 1).todos
    /\ nextId = 2
    /\ now = StartTime
    /\ last = [op |-> "none", body |-> Body(0, "", "", << >>, 0, FALSE), at |-> StartTime,
               status |-> 0, calls |-> << >>, data |-> NoData, before |-> NoTodos]
    /\ deleted = {}
    /\ reqs = NoRequests

ConcNext ==
    \/ \E h \in Handlers : Accept(h)
    \/ \E h \in Handlers : Lookup(h)
    \/ \E h \in Handlers : Write(h)
    \/ \E h \in Handlers : Remove(h)

\* two requests at once
SpecConc == ConcInit /\ [][ConcNext]_vars

(***************************************************************************)
(* Properties.  They speak of the last request: its body, the clock it     *)
(* read (last.at), its response status, the store calls it issued, the     *)
(* store it found (last.before) and the store it left (todos).             *)
(***************************************************************************)
\* the id the last request addresses
LastId == last.body.id

\* the last request addressed a row that was stored when it arrived
LastStored == LastId \in DOMAIN last.before

\* the last request issued the store call of this name
Issued(name) == \E i \in DOMAIN last.calls : last.calls[i][1] = name

\* every store round trip of the last request worked
StoreWorked == \A i \in DOMAIN last.calls : last.calls[i][2] = "none"

\* the expiry text of the last request, parsed
LastExpiry == ParseDate(last.body.expiry)

\* the body of the last create or text-update request passed its binding
LastTextBound ==
    \/ last.op = "create" /\ ValidCreate(BindCreate(last.body))
    \/ last.op = "text" /\ ValidUpdateInfo(last.body)

\* C1: a completion update of a stored todo with a requested completion c in
\* [0,100] is answered 200 only if c is greater than the stored completion,
\* and always so when its store round trips work; an equal c is answered
\* 400; on 200 the stored completion is c and no other field and no other
\* todo has changed.
C1_CompletionUpdate ==
    (last.op = "completion" /\ LastStored /\ last.body.completion \in 0..100) =>
        LET c == last.body.completion
            stored == last.before[LastId].Completion
        IN  /\ last.status = 200 => c > stored
            /\ (StoreWorked /\ c > stored) => last.status = 200
            /\ (StoreWorked /\ c = stored) => last.status = 400
            /\ last.status = 200 =>
                   todos = [last.before EXCEPT ![LastId].Completion = c]

\* a completion update from 50 to 100 of a todo that is done was answered 200
C1_Witness ==
    /\ last.op = "completion"
    /\ last.status = 200
    /\ LastStored
    /\ last.before[LastId].Completion = 50
    /\ last.before[LastId].IsDone
    /\ todos[LastId].Completion = 100

\* C2: a done update of a stored todo is answered 200 only if the stored
\* is_done is false and the requested is_done is true, and always so when its
\* store round trips work; against a todo that is already done it issues no
\* write, leaves the store alone and is answered 400; on 200 is_done is true
\* and no other field and no other todo has changed.
C2_DoneUpdate ==
    (last.op = "done" /\ LastStored) =>
        LET stored == last.before[LastId].IsDone
        IN  /\ last.status = 200 => (~stored /\ last.body.is_done)
            /\ (StoreWorked /\ ~stored /\ last.body.is_done) => last.status = 200
            /\ stored => (~Issued("UpdateOneTodo") /\ todos = last.before)
            /\ (stored /\ StoreWorked) => last.status = 400
            /\ last.status = 200 =>
                   todos = [last.before EXCEPT ![LastId].IsDone = TRUE]

\* a done update with is_done true of a todo that is done was answered 400
\* after the lookup alone
C2_Witness ==
    /\ last.op = "done"
    /\ LastStored
    /\ last.before[LastId].IsDone
    /\ last.body.is_done
    /\ last.status = 400
    /\ last.calls = <<Call("GetOneTodoById", "none")>>

\* C3: with requests handled one at a time no step lowers the completion of
\* a stored todo, and a row that appears takes the fresh id of the sequence
\* (so no id comes back with a lower completion).
C3_CompletionNeverDecreases ==
    [][ /\ \A id \in DOMAIN todos \cap DOMAIN todos' :
              todos'[id].Completion >= todos[id].Completion
        /\ \A id \in DOMAIN todos' \ DOMAIN todos :
              id = nextId /\ nextId' = nextId + 1 /\ id \notin deleted
        /\ nextId' >= nextId
        /\ \A id \in DOMAIN todos : id < nextId ]_vars

\* a completion update asking for 50 of a todo stored at 100 was refused, and
\* the todo is still at 100
C3_Witness ==
    /\ last.op = "completion"
    /\ LastStored
    /\ last.body.completion = 50
    /\ last.before[LastId].Completion = 100
    /\ last.status = 400
    /\ todos[LastId].Completion = 100

\* C4: with requests handled one at a time no step turns the is_done of a
\* stored todo from true to false.
C4_DoneIrreversible ==
    [][ \A id \in DOMAIN todos \cap DOMAIN todos' :
            todos[id].IsDone => todos'[id].IsDone ]_vars

\* a text update of a todo that is done was answered 200 and changed the
\* row, which is still done
C4_Witness ==
    /\ last.op = "text"
    /\ last.status = 200
    /\ LastStored
    /\ last.before[LastId].IsDone
    /\ todos[LastId] # last.before[LastId]
    /\ todos[LastId].IsDone

\* C5: a create or text update whose expiry parses is rejected with 400
\* exactly when the parsed date is not later than the clock reading (an
\* expiry equal to the clock reading included; a request that reaches the
\* store and finds it failing aside), and a rejected request leaves the
\* store alone.
C5_ExpiryNotLaterRejected ==
    (LastTextBound /\ ~LastExpiry.err) =>
        /\ (LastExpiry.t <= last.at /\ StoreWorked) => last.status = 400
        /\ (LastExpiry.t > last.at) => last.status # 400
        /\ last.status = 400 => todos = last.before

\* C6: a create or text update whose expiry does not parse is answered 400,
\* issues no store call and leaves the store alone.
C6_UnparseableExpiry ==
    (LastTextBound /\ LastExpiry.err) =>
        /\ last.status = 400
        /\ last.calls = << >>
        /\ todos = last.before

\* a text update with month 13 of a stored todo was answered 400
C6_Witness ==
    /\ last.op = "text"
    /\ LastStored
    /\ LastTextBound
    /\ last.body.expiry = <<2022, 13, 23>>
    /\ last.status = 400

\* C7: a create answered 200 adds exactly one row, under the fresh id of the
\* sequence, with completion 0 and is_done false and the title, description
\* and expiry of the request, whatever id, completion and is_done the body
\* carries; every other row is as before.
C7_CreateStoresFreshTodo ==
    (last.op = "create" /\ last.status = 200) =>
        LET id == nextId - 1
        IN  /\ id \notin DOMAIN last.before
            /\ DOMAIN todos = DOMAIN last.before \cup {id}
            /\ \A i \in DOMAIN last.before : todos[i] = last.before[i]
            /\ todos[id] = Todo(id, last.body.title, last.body.description, 0,
                                LastExpiry.t, FALSE)
            /\ ~LastExpiry.err

\* a create whose body carried an id, completion 100 and is_done true was
\* answered 200
C7_Witness ==
    /\ last.op = "create"
    /\ last.status = 200
    /\ last.body.id = MaxId + 1
    /\ last.body.completion = 100
    /\ last.body.is_done
    /\ nextId - 1 \in DOMAIN todos

\* C8: a text update answered 200 replaces the title, description and expiry
\* of the addressed row with those of the request and leaves its id,
\* completion and is_done, and every other row, as before.
C8_TextUpdateFrame ==
    (last.op = "text" /\ last.status = 200) =>
        /\ LastStored
        /\ ~LastExpiry.err
        /\ todos = [last.before EXCEPT ![LastId] =
                        Todo(LastId, last.body.title, last.body.description,
                             last.before[LastId].Completion, LastExpiry.t,
                             last.before[LastId].IsDone)]

\* a text update answered 200 changed title, description and expiry of a
\* todo that is done and has completion 50
C8_Witness ==
    /\ last.op = "text"
    /\ last.status = 200
    /\ LastStored
    /\ todos[LastId].Title # last.before[LastId].Title
    /\ todos[LastId].Description # last.before[LastId].Description
    /\ todos[LastId].Expiry # last.before[LastId].Expiry
    /\ todos[LastId].Completion = 50
    /\ todos[LastId].IsDone

\* C9: a text, completion or done update answered 400, 404 or 500 leaves
\* every row of the store, the addressed one included, as it was.
C9_NoPartialUpdate ==
    (last.op \in {"text", "completion", "done"} /\ last.status \in {400, 404, 500}) =>
        todos = last.before

\* a completion update of a stored todo issued its write, the write failed,
\* and the request was answered 500
C9_Witness ==
    /\ last.op = "completion"
    /\ LastStored
    /\ last.status = 500
    /\ Issued("UpdateOneTodo")

\* C10: a delete of a stored id whose round trip works is answered 200 and
\* removes that row alone; an id whose delete was answered 200 is not stored
\* again, and a further delete of it is answered 404 and leaves the store
\* alone.
C10_DeleteTwice ==
    /\ \A id \in deleted : id \notin DOMAIN todos
    /\ (last.op = "delete" /\ LastStored /\ StoreWorked) =>
           /\ last.status = 200
           /\ todos = [i \in DOMAIN last.before \ {LastId} |-> last.before[i]]
           /\ LastId \in deleted
    /\ (last.op = "delete" /\ ~LastStored /\ LastId \in deleted) =>
           /\ last.status = 404
           /\ todos = last.before

\* a delete of an id deleted before was answered 404
C10_Witness ==
    /\ last.op = "delete"
    /\ ~LastStored
    /\ LastId \in deleted
    /\ last.status = 404
    /\ Issued("DeleteOneTodo")

\* C11: a create answered 200 returns the row it stored; a get-by-id of the
\* returned id that follows it and whose round trip works is answered 200
\* with the same id, title, description, completion, is_done and expiry; a
\* get-by-id that follows the delete of its id is answered 404.
C11_ReadBack ==
    [][ /\ (last'.op = "create" /\ last'.status = 200) =>
               /\ last'.data.Id \in DOMAIN todos'
               /\ todos'[last'.data.Id] = last'.data
        /\ ( /\ last.op = "create" /\ last.status = 200
             /\ last'.op = "get" /\ last'.body.id = last.data.Id
             /\ last'.calls = <<Call("GetOneTodoById", "none")>> ) =>
               /\ last'.status = 200
               /\ last'.data = last.data
        /\ ( /\ last.op = "delete" /\ last.status = 200
             /\ last'.op = "get" /\ last'.body.id = last.body.id ) =>
               /\ last'.status = 404
               /\ last'.data = NoData ]_vars

\* a get-by-id was answered 200 with a row as a create stores it: the id
\* asked for, the title, description and expiry of a request, completion 0
\* and is_done false
C11_Witness ==
    /\ last.op = "get"
    /\ last.status = 200
    /\ last.data = Todo(LastId, "t1", "d1", 0, DateTicks(<<2022, 12, 23>>), FALSE)
    /\ last.data = todos[LastId]

\* the requests that address one row of the store by its id
ById == {"get", "text", "completion", "done", "delete"}

\* C12: for a get-by-id, an update or a delete that reaches the store, the
\* status follows the outcome of the store calls: with the addressed row
\* stored it is never 404, it is 500 when a round trip fails (a lost
\* connection) and 200 or 400 only when every round trip works; with no row
\* of that id and working round trips it is 404.
C12_StatusFollowsStore ==
    (last.op \in ById /\ last.calls # << >>) =>
        /\ LastStored => last.status # 404
        /\ (LastStored /\ ~StoreWorked) => last.status = 500
        /\ last.status \in {200, 400} => StoreWorked
        /\ (~LastStored /\ StoreWorked) => last.status = 404

\* the two arguments of the GetManyTodos call of the last request
LastStart == last.calls[1][3]

LastEnd == last.calls[1][4]

\* the last request was a list request of this period answered 200
Listed(period) ==
    /\ last.op = "list"
    /\ last.body.period = period
    /\ last.status = 200

\* C13: a list request answered 200 after a GetManyTodos(start, end) returns
\* exactly the stored todos with is_done false and start <= expiry <= end:
\* no done todo, no todo with an expiry outside [start, end], and every
\* unfinished todo with an expiry inside it, the two bounds included.
C13_ExpiryRange ==
    (last.op = "list" /\ last.status = 200 /\ Issued("GetManyTodos")) =>
        /\ \A todo \in last.data :
              /\ \E id \in DOMAIN last.before : last.before[id] = todo
              /\ ~todo.IsDone
              /\ LastStart <= todo.Expiry
              /\ todo.Expiry <= LastEnd
        /\ \A id \in DOMAIN last.before :
              ( /\ ~last.before[id].IsDone
                /\ LastStart <= last.before[id].Expiry
                /\ last.before[id].Expiry <= LastEnd ) => last.before[id] \in last.data

\* a range query returned an unfinished todo whose expiry is its end bound,
\* and left out a done todo with the same expiry
C13_Witness ==
    /\ last.op = "list"
    /\ last.status = 200
    /\ Issued("GetManyTodos")
    /\ \E a, b \in DOMAIN last.before :
          /\ last.before[a].Expiry = LastEnd
          /\ ~last.before[a].IsDone
          /\ last.before[a] \in last.data
          /\ last.before[b].Expiry = LastEnd
          /\ last.before[b].IsDone
          /\ last.before[b] \notin last.data

\* 00:00 of the day that lies days after the day of an instant
StartOfDay(t, days) == (DayOf(t) + days) * TicksPerDay

\* the rows a list request found stored
RowsBefore == {last.before[id] : id \in DOMAIN last.before}

\* C14 as stated: a list request for today, with the clock at one instant t
\* throughout, returns exactly the unfinished todos with t <= expiry and
\* expiry before the start of tomorrow: a todo that expires exactly at the
\* start of tomorrow is not returned.
C14_TodayHalfOpen ==
    (Listed("today") /\ LastStart = last.at) =>
        \A todo \in RowsBefore :
            todo \in last.data <=>
                /\ ~todo.IsDone
                /\ last.at <= todo.Expiry
                /\ todo.Expiry < StartOfDay(last.at, 1)

\* C14, amended: a list request for today returns exactly the unfinished
\* todos of the closed range from the instant of its query, which is not
\* before its arrival, to the start of the day after its arrival: a todo
\* that expires exactly at the start of tomorrow is returned.
C14_TodayClosed ==
    Listed("today") =>
        /\ last.at <= LastStart
        /\ LastStart = now
        /\ LastEnd = StartOfDay(last.at, 1)
        /\ \A todo \in RowsBefore :
              todo \in last.data <=>
                  /\ ~todo.IsDone
                  /\ LastStart <= todo.Expiry
                  /\ todo.Expiry <= StartOfDay(last.at, 1)

\* a list request for today returned an unfinished todo that expires exactly
\* at the start of tomorrow
C14_Witness ==
    /\ Listed("today")
    /\ \E todo \in last.data :
          /\ ~todo.IsDone
          /\ todo.Expiry = StartOfDay(last.at, 1)
          /\ todo.Expiry > LastStart

\* C15: a list request for tomorrow queries the range from the instant of
\* its query, which is not before its arrival, to the start of the day two
\* days after its arrival, and every todo a list request for today returns
\* from the same store at the same clock readings is among its todos.
C15_TomorrowIncludesToday ==
    Listed("tomorrow") =>
        /\ last.at <= LastStart
        /\ LastStart = now
        /\ LastEnd = StartOfDay(last.at, 2)
        /\ getTodos("today", <<last.at, LastStart>>, "none", last.before, nextId).data
               \subseteq last.data

\* a list request for tomorrow returned a todo that expires before the start
\* of tomorrow
C15_Witness ==
    /\ Listed("tomorrow")
    /\ \E todo \in last.data :
          /\ todo.Expiry < StartOfDay(last.at, 1)
          /\ todo \in getTodos("today", <<last.at, LastStart>>, "none", last.before, nextId).data

\* C16: a list request for the week, with the clock at one instant
\* throughout, queries the range from that instant to the end of the
\* upcoming Sunday (00:00 of the Monday after it), which on a Sunday is 7
\* days after the start of today; on no weekday does the range end more than
\* 7 days after the start of today.
C16_WeekEndsSunday ==
    (Listed("week") /\ LastStart = last.at) =>
        /\ LastEnd = StartOfDay(last.at, IF Weekday(last.at) = 0 THEN 7
                                         ELSE 8 - Weekday(last.at))
        /\ Weekday(LastEnd) = 1
        /\ LastEnd <= StartOfDay(last.at, 7)

\* C17: a list request whose period is none of "today", "tomorrow", "week"
\* and "" is answered 400 without Data, issues neither GetAllTodos nor
\* GetManyTodos, and leaves the store alone.
C17_BadPeriod ==
    (last.op = "list" /\ last.body.period \notin {"today", "tomorrow", "week", ""}) =>
        /\ last.status = 400
        /\ last.calls = << >>
        /\ last.data = NoData
        /\ todos = last.before

\* a list request with the period "????" over a store that holds a todo was
\* answered 400
C17_Witness ==
    /\ last.op = "list"
    /\ last.body.period = "????"
    /\ last.status = 400
    /\ DOMAIN last.before # {}

\* C18: a list request with the empty period (an omitted period binds to
\* it) that is answered 200 issued GetAllTodos alone and returns every
\* stored todo, the done ones and the ones whose expiry has passed included.
C18_EmptyPeriodAll ==
    Listed("") =>
        /\ last.calls = <<Call("GetAllTodos", "none")>>
        /\ last.data = RowsBefore
        /\ todos = last.before

\* a list request with the empty period returned a done todo and a todo
\* whose expiry has passed
C18_Witness ==
    /\ Listed("")
    /\ \E todo \in last.data : todo.IsDone
    /\ \E todo \in last.data : ~todo.IsDone /\ todo.Expiry < last.at

\* C19: a done update whose is_done is false (a body without is_done binds
\* to false) is answered 400 without a store call, neither the lookup nor
\* the write, and leaves the store alone, whatever the addressed todo.
C19_DoneFalseRejected ==
    (last.op = "done" /\ ~last.body.is_done) =>
        /\ last.status = 400
        /\ last.calls = << >>
        /\ todos = last.before

\* a done update with is_done false of a stored todo that is not done was
\* answered 400 without a store call
C19_Witness ==
    /\ last.op = "done"
    /\ ~last.body.is_done
    /\ LastStored
    /\ ~last.before[LastId].IsDone
    /\ last.status = 400
    /\ last.calls = << >>

\* C20: nothing guards the write of a completion update: whatever the store
\* holds when a handler reaches its write, the write stores the row the
\* handler read, with its requested completion, and the request is answered
\* 200; so of two completion updates that both read todo 1 before either
\* writes, both are answered 200 and the one that writes last decides the
\* stored completion, be it the lower one.
C20_WriteUnguarded ==
    [][ \A h \in Handlers :
            ( /\ reqs[h].op = "completion"
              /\ reqs[h].pc = "write"
              /\ reqs'[h].pc = "done" ) =>
                /\ reqs'[h].status = 200
                /\ reqs[h].todo.Completion = reqs[h].body.completion
                /\ reqs[h].todo.Id \in DOMAIN todos'
                /\ todos'[reqs[h].todo.Id] = reqs[h].todo ]_vars

\* the completion updates to 100 and to 50 of todo 1 were both answered 200,
\* and the stored completion is 50
C20_Witness ==
    \E h, k \in Handlers :
        /\ reqs[h].op = "completion" /\ reqs[h].body.completion = 100
        /\ reqs[k].op = "completion" /\ reqs[k].body.completion = 50
        /\ reqs[h].pc = "done" /\ reqs[h].status = 200
        /\ reqs[k].pc = "done" /\ reqs[k].status = 200
        /\ reqs[h].body.id = reqs[k].body.id
        /\ todos[reqs[h].body.id].Completion = 50

\* C21: with two requests at once, no step of a handler turns the is_done of
\* a stored todo from true to false.
C21_DoneIrreversibleOverlap ==
    [][ \A id \in DOMAIN todos \cap DOMAIN todos' :
            todos[id].IsDone => todos'[id].IsDone ]_vars

C23_CompletionInRange ==
    /\ \A id \in DOMAIN todos : todos[id].Completion >= 0 /\ todos[id].Completion <= 100
    /\ ( /\ last.op = "completion"
         /\ (last.body.completion < 0 \/ last.body.completion > 100) ) =>
           /\ last.status = 400
           /\ last.calls = << >>
           /\ todos = last.before

\* a completion update to 101 of a stored todo at 100 was answered 400
\* without a store call
C23_Witness ==
    /\ last.op = "completion"
    /\ last.body.completion = 101
    /\ LastStored
    /\ todos[LastId].Completion = 100
    /\ last.status = 400
    /\ last.calls = << >>

\* the rule of the last update passes on the row it found stored
LastRulePassed ==
    /\ LastStored
    /\ last.op = "completion" => last.body.completion > last.before[LastId].Completion
    /\ last.op = "done" => (~last.before[LastId].IsDone /\ last.body.is_done)

\* C24: a text, completion or done update issues UpdateOneTodo at most once,
\* and only as its second store call, after a GetOneTodoById that worked and
\* found the row and after its rule passed on that row; a lookup that finds
\* no row or fails, or a rule that fails, is followed by no write.
C24_WriteAfterLookupAndRule ==
    (last.op \in {"text", "completion", "done"}) =>
        /\ Cardinality({i \in DOMAIN last.calls : last.calls[i][1] = "UpdateOneTodo"}) <= 1
        /\ Issued("UpdateOneTodo") =>
               /\ Len(last.calls) = 2
               /\ last.calls[1] = Call("GetOneTodoById", "none")
               /\ last.calls[2][1] = "UpdateOneTodo"
               /\ LastRulePassed
        /\ ( \/ ~LastStored
             \/ ~LastRulePassed
             \/ (last.calls # << >> /\ last.calls[1] # Call("GetOneTodoById", "none")) ) =>
               /\ ~Issued("UpdateOneTodo")
               /\ todos = last.before

\* a done update of a stored todo that is not done, whose lookup read the
\* row and then failed, was answered 500 after the lookup alone
C24_Witness ==
    /\ last.op = "done"
    /\ last.body.is_done
    /\ LastStored
    /\ ~last.before[LastId].IsDone
    /\ last.calls = <<Call("GetOneTodoById", "late")>>
    /\ last.status = 500

\* C25: a text update whose body binds and whose expiry does not parse or
\* lies before the clock reading is answered 400 without a store call, so
\* without a lookup: also for an id that is not stored, where the answer is
\* 400 and not 404.
C25_ExpiryBeforeLookup ==
    ( /\ last.op = "text"
      /\ LastTextBound
      /\ (LastExpiry.err \/ LastExpiry.t < last.at) ) =>
        /\ last.status = 400
        /\ last.calls = << >>
        /\ todos = last.before

\* a text update of id 1, which is not stored, with an expiry before the
\* clock reading was answered 400
C25_Witness ==
    /\ last.op = "text"
    /\ LastId = 1
    /\ ~LastStored
    /\ LastTextBound
    /\ ~LastExpiry.err
    /\ LastExpiry.t < last.at
    /\ last.status = 400
    /\ last.calls = << >>

\* C26: a completion or done update of a stored todo leaves its expiry as
\* it was, and with working store round trips it is answered 200 exactly
\* when its body binds and its rule passes, whether the stored expiry has
\* passed or not.
C26_NoExpiryCheck ==
    (last.op \in {"completion", "done"} /\ LastStored) =>
        /\ LastId \in DOMAIN todos
        /\ todos[LastId].Expiry = last.before[LastId].Expiry
        /\ (last.op = "completion" /\ StoreWorked) =>
               (last.status = 200 <=>
                    /\ last.body.completion \in 1..100
                    /\ last.body.completion > last.before[LastId].Completion)
        /\ (last.op = "done" /\ StoreWorked) =>
               (last.status = 200 <=>
                    /\ last.body.is_done
                    /\ ~last.before[LastId].IsDone)

\* a completion update of a todo whose expiry had passed was answered 200,
\* and the expiry is as it was
C26_Witness ==
    /\ last.op = "completion"
    /\ last.status = 200
    /\ LastStored
    /\ last.before[LastId].Expiry < last.at
    /\ todos[LastId].Expiry = last.before[LastId].Expiry
    /\ todos[LastId].Completion > last.before[LastId].Completion

\* C27: with an update and a delete of one todo in flight at once and no
\* create among the requests, no todo is stored under an id whose delete was
\* answered 200.
C27_DeleteFinalOverlap == \A id \in deleted : id \notin DOMAIN todos

\* C28: the bounds a list request for today, tomorrow or the week hands to
\* the store are the range of the one instant its range starts at: the end
\* is 00:00 of the day that lies, counted from the day of that instant, as
\* many days ahead as the period adds at that instant, however the clock
\* moved between the handler's readings.
C28_OneInstant ==
    ( /\ last.op = "list"
      /\ last.body.period \in {"today", "tomorrow", "week"}
      /\ last.calls # << >> ) =>
        LastEnd = StartOfDay(LastStart, AddDays(last.body.period, LastStart))

\* the record stored under id is, after the last request, what it was before
\* it (stored and equal, or not stored)
Same(id) ==
    /\ id \in DOMAIN todos <=> id \in DOMAIN last.before
    /\ id \in DOMAIN todos => todos[id] = last.before[id]

WeekAt(t) == getTodos("week", <<t, t, t>>, "none", last.before, nextId)

\* C30: when a list request for tomorrow was answered 200 with the clock at
\* one instant throughout, a request for the week at that instant over the
\* same store has the same start, an end that is not earlier, and returns
\* every todo the request for tomorrow returned.
C30_TomorrowWithinWeek ==
    ( /\ last.op = "list"
      /\ last.body.period = "tomorrow"
      /\ last.status = 200
      /\ last.at = LastStart ) =>
        /\ WeekAt(LastStart).status = 200
        /\ WeekAt(LastStart).calls[1][3] = LastStart
        /\ WeekAt(LastStart).calls[1][4] >= LastEnd
        /\ LastEnd = StartOfDay(LastStart, 2)
        /\ WeekAt(LastStart).calls[1][4] = StartOfDay(LastStart, 8 - Weekday(LastStart))
        /\ last.data \subseteq WeekAt(LastStart).data

\* on a Saturday, where the week adds 8 - 6 = 2 days, a request for tomorrow
\* returned a todo that expires at the end of its range
C30_Witness ==
    /\ last.op = "list"
    /\ last.body.period = "tomorrow"
    /\ last.status = 200
    /\ last.at = LastStart
    /\ Weekday(LastStart) = 6
    /\ \E todo \in last.data : todo.Expiry = LastEnd
    /\ WeekAt(LastStart).calls[1][4] = LastEnd

====
